---------------------------- MODULE Spec2Model ----------------------------
(***************************************************************************)
(* A model of backend/ai_generator.py: AIGenerator.generate_response and   *)
(* AIGenerator._handle_tool_execution, the sequential tool-calling loop    *)
(* between the Model Client (self.client.messages.create) and the Tool     *)
(* Executor (tool_manager.execute_tool).                                   *)
(*                                                                         *)
(* Python values are modelled as follows.                                  *)
(*   Optional[x]   None is <<>>, a present value v is <<v>>                *)
(*   dict          a record; {**a, "k": v} is Merge(a, [k |-> v])          *)
(*   list          a sequence (1-based: content[0] is content[1])          *)
(*   return/raise  [kind |-> "return", value |-> s] or                     *)
(*                 [kind |-> "raise", exc |-> name]                        *)
(***************************************************************************)
EXTENDS Integers, Sequences, FiniteSets, TLC

(***************************************************************************)
(* Bounds of the model.                                                    *)
(***************************************************************************)
\* the largest max_tool_rounds a call is made with
MaxRounds == 2

(***************************************************************************)
(* Program constants.                                                      *)
(***************************************************************************)
\* "temperature": 0
Temperature == 0
\* "max_tokens": 800
MaxTokens == 800
\* max_tool_rounds: int = 2
DefaultMaxToolRounds == 2

\* AIGenerator.SYSTEM_PROMPT (abridged to its first sentence)
SYSTEM_PROMPT ==
    " You are an AI assistant specialized in course materials and educational content"

\* the fallback return value of _handle_tool_execution
FALLBACK_TEXT == "Maximum tool calling rounds reached without final response."

None == <<>>
Some(v) == <<v>>
IsNone(o) == Len(o) = 0

\* {**a, **b}: the keys of b override those of a
Merge(a, b) == b @@ a

(***************************************************************************)
(* The inputs of a call.                                                   *)
(***************************************************************************)
Queries == {"What is lesson 1 about?"}

\* conversation_history: None, the empty string, or a text
Histories == {None, Some(""), Some("User: hi\nAssistant: hello")}

ToolSpec(n) == [name |-> n, description |-> "Test tool", input_schema |-> "object"]

\* tools: None, the empty list, or a list of tool specs
ToolLists ==
    {None, Some(<<>>),
     Some(<<ToolSpec("search_course_content"), ToolSpec("get_course_outline")>>)}

\* tool_manager: None or an object with execute_tool
ToolManagers == {None, Some("tool_manager")}

\* max_tool_rounds, the default included
RoundLimits == ((0 - 1) .. MaxRounds) \cup {DefaultMaxToolRounds}

(***************************************************************************)
(* The Model Client's responses.  A response is read through stop_reason   *)
(* and content; a content block through type, text, id, name and input.    *)
(***************************************************************************)
TextBlock(n) == [type |-> "text", text |-> "text of response " \o ToString(n)]

ToolUse1 ==
    [type |-> "tool_use", id |-> "toolu_1", name |-> "search_course_content",
     input |-> [query |-> "lesson 1"]]

ToolUse2 ==
    [type |-> "tool_use", id |-> "toolu_2", name |-> "get_course_outline",
     input |-> [course_name |-> "MCP"]]

\* a tool_use block that has a text attribute as well, as the mock blocks of
\* the tests have
MockToolUse ==
    [type |-> "tool_use", id |-> "tool_id", name |-> "test_tool_1",
     input |-> [param |-> "value"], text |-> "mock.text"]

\* the contents of the n-th response of a call: empty, text only, one tool
\* use, text followed by two tool uses, and a tool use that has a text
\* attribute followed by text
Contents(n) ==
    {<<>>, <<TextBlock(n)>>, <<ToolUse1>>, <<TextBlock(n), ToolUse1, ToolUse2>>,
     <<MockToolUse, TextBlock(n)>>}

StopReasons == {"end_turn", "tool_use"}

\* what self.client.messages.create does on the n-th request of a call: it
\* returns a response or raises
ClientOutcomes(n) ==
    {[kind |-> "response", stop_reason |-> s, content |-> c] :
        s \in StopReasons, c \in Contents(n)}
    \cup {[kind |-> "error"]}

\* an exception raised by execute_tool: its class, the classes it is an
\* instance of, and str(e)
Raised(exc, bases, msg) ==
    [kind |-> "raise", exc |-> exc, bases |-> bases, msg |-> msg]

\* the names of the tools of the tool specs
ToolNames == {"search_course_content", "get_course_outline"}

\* what tool_manager.execute_tool does: it returns a string, or raises an
\* Exception or an exception that is not an Exception; for a name that is
\* not a tool's it may raise an instance of a subclass of Exception as well
ToolOutcomes(name) ==
    {[kind |-> "return", value |-> "result of " \o name],
     Raised("Exception", {"Exception", "BaseException"},
            "Test tool execution error"),
     Raised("KeyboardInterrupt", {"KeyboardInterrupt", "BaseException"}, "")}
    \cup IF name \in ToolNames
         THEN {}
         ELSE {Raised("KeyError",
                      {"KeyError", "LookupError", "Exception", "BaseException"},
                      "'" \o name \o "'")}

NoResponse == [kind |-> "none"]
NoOutcome == [kind |-> "none"]
NoArgs == [kind |-> "none"]
NoPrev == [kind |-> "none"]


(***************************************************************************)
(* The state.                                                              *)
(***************************************************************************)
VARIABLES
    base_params,       \* self.base_params of the AIGenerator
    args,              \* the arguments of the current call of generate_response
    api_params,        \* generate_response's api_params (base_params of the loop)
    messages,          \* _handle_tool_execution's messages
    current_round,     \* _handle_tool_execution's current_round
    initial_response,  \* the response the loop is processing
    tool_results,      \* the round's tool_results
    has_tool_calls,    \* the round's has_tool_calls
    block_index,       \* the position of the for loop in the response's content
    pc,                \* idle, while, for, returned, raised
    outcome,           \* what the call returned or raised
    create_calls,      \* the calls of client.messages.create made by this call
    execute_calls,     \* the calls of tool_manager.execute_tool made by this call
    mode,              \* free: any collaborators; det: deterministic ones
    client_memo,       \* det: the Model Client as a function of its request
    tool_memo,         \* det: the Tool Executor as a function of its arguments
    prev               \* det: what the previous call did

locals ==
    <<api_params, messages, current_round, initial_response, tool_results,
      has_tool_calls, block_index>>

vars ==
    <<base_params, args, api_params, messages, current_round, initial_response,
      tool_results, has_tool_calls, block_index, pc, outcome, create_calls,
      execute_calls, mode, client_memo, tool_memo, prev>>

(***************************************************************************)
(* The pure parts of the code.                                             *)
(***************************************************************************)
\* the truth value of conversation_history: None and "" are false
HistoryPresent(h) == ~IsNone(h) /\ h[1] # ""

\* the truth value of tools: None and [] are false
ToolsPresent(t) == ~IsNone(t) /\ Len(t[1]) > 0

\* the truth value of tool_manager
ManagerPresent(tm) == ~IsNone(tm)

\* self.base_params as __init__ builds it
BaseParams ==
    [model |-> "test_model", temperature |-> Temperature, max_tokens |-> MaxTokens]

\* system_content
SystemContent(h) ==
    IF HistoryPresent(h)
    THEN SYSTEM_PROMPT \o "\n\nPrevious conversation:\n" \o h[1]
    ELSE SYSTEM_PROMPT

\* a transcript kept from one call to the next
InitialMessagesKept(query) == messages \o <<[role |-> "user", content |-> query]>>

\* the transcript generate_response starts from
InitialMessages(query) == <<[role |-> "user", content |-> query]>>

\* if tools: params["tools"] = tools; params["tool_choice"] = {"type": "auto"}
WithTools(params, t) ==
    IF ToolsPresent(t)
    THEN Merge(params, [tools |-> t[1], tool_choice |-> [type |-> "auto"]])
    ELSE params

\* api_params of generate_response
ApiParams(bp, query, h, t) ==
    WithTools(Merge(bp, [messages |-> InitialMessages(query),
                         system |-> SystemContent(h)]), t)

\* a final request that keeps the tools attached
FinalParamsTooled(bp, msgs, system) ==
    WithTools(Merge(bp, [messages |-> msgs, system |-> system]), args.tools)

\* final parameters that take the bare system prompt
FinalParamsBarePrompt(bp, msgs, system) ==
    Merge(bp, [messages |-> msgs, system |-> SYSTEM_PROMPT])

\* final_params of _handle_tool_execution
FinalParams(bp, msgs, system) == Merge(bp, [messages |-> msgs, system |-> system])

\* a follow-up request built without the tools
NextParamsUntooled(bp, msgs, system, t) ==
    Merge(bp, [messages |-> msgs, system |-> system])

\* next_params of _handle_tool_execution
NextParams(bp, msgs, system, t) ==
    WithTools(Merge(bp, [messages |-> msgs, system |-> system]), t)

\* a test that forgets the stop reason
EntersWithAnyStopReason(response, tm) == ManagerPresent(tm)

\* response.stop_reason == "tool_use" and tool_manager
EntersToolExecution(response, tm) ==
    response.stop_reason = "tool_use" /\ ManagerPresent(tm)

\* response.content[0].text: IndexError on an empty content, AttributeError
\* on a block without a text attribute
TextOf(response) ==
    IF Len(response.content) = 0
    THEN [kind |-> "raise", exc |-> "IndexError"]
    ELSE IF "text" \in DOMAIN response.content[1]
         THEN [kind |-> "return", value |-> response.content[1].text]
         ELSE [kind |-> "raise", exc |-> "AttributeError"]

\* a loop test that stops one round early
RoundPermittedStrict(round, max_rounds) == round < max_rounds

\* a loop test that allows one round more
RoundPermittedOneMore(round, max_rounds) == round <= max_rounds + 1

\* while current_round <= max_rounds
RoundPermitted(round, max_rounds) == round <= max_rounds

\* a round limit that is off by one
IsFinalRequestLate(has_calls, round, max_rounds) == ~has_calls \/ round > max_rounds

\* if not has_tool_calls or current_round >= max_rounds
IsFinalRequest(has_calls, round, max_rounds) == ~has_calls \/ round >= max_rounds

\* a follow-up response that is never returned
ReturnsNoFollowUp(response) == FALSE

\* if initial_response.stop_reason != "tool_use": return
ReturnsFollowUp(response) == response.stop_reason # "tool_use"

\* a round counter that is never incremented
NextRoundStuck(round) == round

\* current_round += 1
NextRound(round) == round + 1

\* execute_tool called without a handler around it
CaughtNothing(reply) == FALSE

\* except Exception as e: the handler around execute_tool catches the
\* instances of Exception
Caught(reply) == "Exception" \in reply.bases

\* an exception of execute_tool that is not caught leaves generate_response
ToolFailure(reply) == [kind |-> "raise", exc |-> reply.exc]

\* the content of the tool result: the returned string, or the error text
ToolResultContent(reply) ==
    IF reply.kind = "return"
    THEN reply.value
    ELSE "Error executing tool: " \o reply.msg

\* a tool result that echoes the tool's name in place of the block's id
ToolResultByName(block, reply) ==
    [type |-> "tool_result", tool_use_id |-> block.name,
     content |-> ToolResultContent(reply)]

\* the tool_result block appended for a tool_use block
ToolResult(block, reply) ==
    [type |-> "tool_result", tool_use_id |-> block.id,
     content |-> ToolResultContent(reply)]

\* a tool result put in front of the results collected before it
CollectFirst(results, result) == <<result>> \o results

\* tool_results.append({...})
Collect(results, result) == Append(results, result)

\* one user message appended for each tool result
OneMessagePerResult(msgs, results) ==
    msgs \o [k \in 1 .. Len(results) |-> [role |-> "user", content |-> <<results[k]>>]]

\* a user message appended even when no tool result was collected
WithAnyToolResults(msgs, results) ==
    Append(msgs, [role |-> "user", content |-> results])

\* if tool_results: messages.append({"role": "user", "content": tool_results})
WithToolResults(msgs, results) ==
    IF Len(results) > 0
    THEN Append(msgs, [role |-> "user", content |-> results])
    ELSE msgs

\* messages.append({"role": "assistant", "content": initial_response.content})
WithAssistant(msgs, response) ==
    Append(msgs, [role |-> "assistant", content |-> response.content])

\* a Model Client failure turned into an answer text
ClientFailureAsText == [kind |-> "return", value |-> "Error calling the model"]

\* a Model Client failure propagates out of generate_response
ClientFailure == [kind |-> "raise", exc |-> "APIError"]

Terminal == {"returned", "raised"}

PcOf(result) == IF result.kind = "return" THEN "returned" ELSE "raised"

(***************************************************************************)
(* The collaborators.                                                      *)
(***************************************************************************)
\* the outcomes of the n-th create call of a call, given its request
ClientReplies(params, n) ==
    IF mode = "det" /\ params \in DOMAIN client_memo
    THEN {client_memo[params]}
    ELSE ClientOutcomes(n)

ClientMemoAfter(params, reply) ==
    IF mode = "det" /\ params \notin DOMAIN client_memo
    THEN (params :> reply) @@ client_memo
    ELSE client_memo

\* the outcomes of execute_tool(name, **input)
ToolReplies(name, input) ==
    IF mode = "det" /\ <<name, input>> \in DOMAIN tool_memo
    THEN {tool_memo[<<name, input>>]}
    ELSE ToolOutcomes(name)

ToolMemoAfter(name, input, reply) ==
    IF mode = "det" /\ <<name, input>> \notin DOMAIN tool_memo
    THEN (<<name, input>> :> reply) @@ tool_memo
    ELSE tool_memo

\* a call of client.messages.create: its keyword arguments and what it did,
\* with the place it was made from (initial: line 88, final: line 158, next:
\* line 174) and the round it was made in
CreateCall(params, reply, site, round) ==
    [params |-> params, reply |-> reply, site |-> site, round |-> round]

\* a call of tool_manager.execute_tool: its arguments and what it did, with
\* the round and the content block it was made for and the number of create
\* calls made before it
ExecuteCall(block, reply, round, index, creates) ==
    [name |-> block.name, input |-> block.input, reply |-> reply,
     round |-> round, block |-> index, creates |-> creates]

\* what a finished call did
CallRecord ==
    [args |-> args, create_calls |-> create_calls,
     execute_calls |-> execute_calls, outcome |-> outcome]

EmptyMemo == [x \in {} |-> x]

(***************************************************************************)
(* The initial states: a constructed AIGenerator, no call made yet.        *)
(***************************************************************************)
InitCommon ==
    /\ base_params = BaseParams
    /\ args = NoArgs
    /\ api_params = NoArgs
    /\ messages = <<>>
    /\ current_round = 0
    /\ initial_response = NoResponse
    /\ tool_results = <<>>
    /\ has_tool_calls = FALSE
    /\ block_index = 0
    /\ pc = "idle"
    /\ outcome = NoOutcome
    /\ create_calls = <<>>
    /\ execute_calls = <<>>
    /\ client_memo = EmptyMemo
    /\ tool_memo = EmptyMemo
    /\ prev = NoPrev

Init == InitCommon /\ mode = "free"

InitDet == InitCommon /\ mode = "det"

(***************************************************************************)
(* The actions.                                                            *)
(***************************************************************************)
\* the locals of a call that returned or raised no longer exist
ClearLoop ==
    /\ messages' = <<>>
    /\ current_round' = 0
    /\ initial_response' = NoResponse
    /\ tool_results' = <<>>
    /\ has_tool_calls' = FALSE
    /\ block_index' = 0

\* the call ends: it returns a text or raises
Finish(result) ==
    /\ outcome' = result
    /\ pc' = PcOf(result)

\* generate_response(query, conversation_history, tools, tool_manager,
\* max_tool_rounds), up to its return or its entry into the loop of
\* _handle_tool_execution.  With deterministic collaborators the call is
\* repeated, with the same arguments, once it has ended.
GenerateResponse(query, h, t, tm, max_rounds) ==
    LET a == [query |-> query, conversation_history |-> h, tools |-> t,
              tool_manager |-> tm, max_tool_rounds |-> max_rounds]
        params == ApiParams(base_params, query, h, t)
    IN  /\ \/ pc = "idle"
           \/ mode = "det" /\ pc \in Terminal /\ a = args
        /\ prev' = IF mode = "det" /\ pc # "idle" THEN CallRecord ELSE prev
        /\ args' = a
        /\ api_params' = params
        /\ execute_calls' = <<>>
        /\ \E reply \in ClientReplies(params, 1) :
              /\ create_calls' = <<CreateCall(params, reply, "initial", 0)>>
              /\ client_memo' = ClientMemoAfter(params, reply)
              /\ IF reply.kind = "error"
                 THEN Finish(ClientFailure) /\ ClearLoop
                 ELSE IF EntersToolExecution(reply, tm)
                      THEN /\ messages' = params.messages
                           /\ current_round' = 1
                           /\ initial_response' = reply
                           /\ tool_results' = <<>>
                           /\ has_tool_calls' = FALSE
                           /\ block_index' = 0
                           /\ pc' = "while"
                           /\ outcome' = NoOutcome
                      ELSE Finish(TextOf(reply)) /\ ClearLoop
        /\ UNCHANGED <<base_params, mode, tool_memo>>

\* the test of the while loop, and the start of a round: the response is
\* appended to the transcript; or the loop ends and the fallback is returned
WhileTest ==
    /\ pc = "while"
    /\ IF RoundPermitted(current_round, args.max_tool_rounds)
       THEN /\ messages' = WithAssistant(messages, initial_response)
            /\ tool_results' = <<>>
            /\ has_tool_calls' = FALSE
            /\ block_index' = 1
            /\ pc' = "for"
            /\ UNCHANGED outcome
       ELSE /\ Finish([kind |-> "return", value |-> FALLBACK_TEXT])
            /\ UNCHANGED <<messages, tool_results, has_tool_calls, block_index>>
    /\ UNCHANGED <<base_params, args, api_params, current_round, initial_response,
                   create_calls, execute_calls, mode, client_memo, tool_memo, prev>>

\* one iteration of the for loop over the response's content blocks: a
\* tool_use block is executed and its result collected, another block is
\* passed over
ForBlock ==
    /\ pc = "for"
    /\ block_index <= Len(initial_response.content)
    /\ LET block == initial_response.content[block_index]
       IN  IF block.type = "tool_use"
           THEN \E reply \in ToolReplies(block.name, block.input) :
                   /\ has_tool_calls' = TRUE
                   /\ execute_calls' =
                        Append(execute_calls,
                               ExecuteCall(block, reply, current_round, block_index,
                                           Len(create_calls)))
                   /\ tool_memo' = ToolMemoAfter(block.name, block.input, reply)
                   /\ IF reply.kind = "raise" /\ ~Caught(reply)
                      THEN /\ Finish(ToolFailure(reply))
                           /\ UNCHANGED tool_results
                      ELSE /\ tool_results' =
                                Collect(tool_results, ToolResult(block, reply))
                           /\ UNCHANGED <<pc, outcome>>
           ELSE UNCHANGED <<has_tool_calls, tool_results, execute_calls, tool_memo,
                            pc, outcome>>
    /\ block_index' = block_index + 1
    /\ UNCHANGED <<base_params, args, api_params, messages, current_round,
                   initial_response, create_calls, mode, client_memo, prev>>

\* the rest of the round, after the for loop: the tool results are appended,
\* then either the final request without tools is made and its text returned,
\* or the next request is made and its response returned or taken into the
\* next round
AfterFor ==
    /\ pc = "for"
    /\ block_index > Len(initial_response.content)
    /\ LET msgs == WithToolResults(messages, tool_results)
           final == IsFinalRequest(has_tool_calls, current_round,
                                   args.max_tool_rounds)
           params == IF final
                     THEN FinalParams(base_params, msgs, api_params.system)
                     ELSE NextParams(base_params, msgs, api_params.system,
                                     args.tools)
       IN  /\ messages' = msgs
           /\ \E reply \in ClientReplies(params, Len(create_calls) + 1) :
                 /\ create_calls' =
                      Append(create_calls,
                             CreateCall(params, reply,
                                        IF final THEN "final" ELSE "next",
                                        current_round))
                 /\ client_memo' = ClientMemoAfter(params, reply)
                 /\ IF reply.kind = "error"
                    THEN /\ Finish(ClientFailure)
                         /\ UNCHANGED <<initial_response, current_round>>
                    ELSE IF final
                         THEN /\ Finish(TextOf(reply))
                              /\ UNCHANGED <<initial_response, current_round>>
                         ELSE /\ initial_response' = reply
                              /\ IF ReturnsFollowUp(reply)
                                 THEN /\ Finish(TextOf(reply))
                                      /\ UNCHANGED current_round
                                 ELSE /\ current_round' = NextRound(current_round)
                                      /\ pc' = "while"
                                      /\ UNCHANGED outcome
    /\ UNCHANGED <<base_params, args, api_params, tool_results, has_tool_calls,
                   block_index, execute_calls, mode, tool_memo, prev>>

Next ==
    \/ \E query \in Queries, h \in Histories, t \in ToolLists,
          tm \in ToolManagers, max_rounds \in RoundLimits :
          GenerateResponse(query, h, t, tm, max_rounds)
    \/ WhileTest
    \/ ForBlock
    \/ AfterFor

\* one call, with any Model Client and any Tool Executor
Spec == Init /\ [][Next]_vars

\* calls with the same arguments, one after the other, against a Model Client
\* and a Tool Executor that are functions of what they are given
SpecDet == InitDet /\ [][Next]_vars

\* the steps of a call in progress; each is a blocking call that returns
Step == WhileTest \/ ForBlock \/ AfterFor

\* a call whose collaborators return keeps running until it ends
SpecLive == Init /\ [][Next]_vars /\ WF_vars(Step)

(***************************************************************************)
(* Notions the properties are stated in.                                   *)
(***************************************************************************)
\* a call has been made
Called == pc # "idle"

\* the call has ended
Ended == pc \in Terminal

\* a call with max_tool_rounds >= 1
PositiveRounds == Called /\ args.max_tool_rounds >= 1

\* the request carries tools
Tooled(params) == "tools" \in DOMAIN params \/ "tool_choice" \in DOMAIN params

\* the reply is a response whose first content block has a text
TextFirst(reply) ==
    /\ reply.kind = "response"
    /\ Len(reply.content) > 0
    /\ "text" \in DOMAIN reply.content[1]

\* invocation e of execute_tool raised an exception that is not an Exception
Escapes(e) ==
    /\ execute_calls[e].reply.kind = "raise"
    /\ "Exception" \notin execute_calls[e].reply.bases

\* an invocation of execute_tool raised an exception that is not an Exception
Escaped == \E e \in 1 .. Len(execute_calls) : Escapes(e)

\* the positions of the tool_use blocks of a content
ToolUseAt(content) == {i \in 1 .. Len(content) : content[i].type = "tool_use"}

\* the reply is a response that signals tool use
SignalsToolUse(reply) == reply.kind = "response" /\ reply.stop_reason = "tool_use"

FirstCall == create_calls[1]
LastCall == create_calls[Len(create_calls)]

\* the sum of f over 1 .. n
RECURSIVE SumTo(_, _)
SumTo(f, n) == IF n = 0 THEN 0 ELSE f[n] + SumTo(f, n - 1)

(***************************************************************************)
(* C1.  With max_tool_rounds = R >= 1, a call of generate_response makes   *)
(* at most R + 1 calls of the Model Client, the initial request included,  *)
(* whatever the responses and the tool outcomes are.                       *)
(***************************************************************************)
C1_AtMostRPlusOneCalls ==
    PositiveRounds => Len(create_calls) <= args.max_tool_rounds + 1

\* a call with max_tool_rounds = 2 that used both rounds and made 3 requests
C1_Witness ==
    /\ pc = "returned"
    /\ args.max_tool_rounds = 2
    /\ Len(create_calls) = 3
    /\ \E e \in 1 .. Len(execute_calls) : execute_calls[e].round = 2

(***************************************************************************)
(* C2, as stated.  With R >= 1, the last Model Client call of a call       *)
(* carries neither tools nor tool_choice.                                  *)
(***************************************************************************)
C2_LastCallUntooled ==
    (Ended /\ PositiveRounds) => ~Tooled(LastCall.params)

(***************************************************************************)
(* C2, amended.  With R >= 1, the final request, the one made after a      *)
(* round that was the last permitted round or invoked no tool, carries     *)
(* neither tools nor tool_choice and is the last request of the call; a    *)
(* call that makes R + 1 requests ends with it.  The initial request and   *)
(* the follow-up requests carry the tools exactly when tools were given.   *)
(***************************************************************************)
C2_FinalRequestUntooled ==
    PositiveRounds =>
        /\ \A i \in 1 .. Len(create_calls) :
              /\ create_calls[i].site = "final" =>
                    /\ ~Tooled(create_calls[i].params)
                    /\ i = Len(create_calls)
                    /\ Ended
              /\ create_calls[i].site # "final" =>
                    (Tooled(create_calls[i].params) <=> ToolsPresent(args.tools))
        /\ Len(create_calls) = args.max_tool_rounds + 1 =>
              /\ LastCall.site = "final"
              /\ ~Tooled(LastCall.params)

\* a call given tools that used its two rounds and ended with the final request
C2_Witness ==
    /\ Ended
    /\ args.max_tool_rounds = 2
    /\ ToolsPresent(args.tools)
    /\ Len(create_calls) = 3
    /\ Tooled(create_calls[2].params)
    /\ LastCall.site = "final"

(***************************************************************************)
(* C3.  The zero-tool fast path: when the stop reason of the first         *)
(* response is not tool_use, the call makes exactly one Model Client call, *)
(* invokes the Tool Executor zero times, and returns the text of the first *)
(* response (content[0].text) unchanged.  When content[0] is not a text    *)
(* block there is no text to return and reading it raises.                 *)
(***************************************************************************)
C3_FastPath ==
    (Called /\ FirstCall.reply.kind = "response"
            /\ FirstCall.reply.stop_reason # "tool_use") =>
        /\ Ended
        /\ Len(create_calls) = 1
        /\ Len(execute_calls) = 0
        /\ IF TextFirst(FirstCall.reply)
           THEN outcome = [kind |-> "return",
                           value |-> FirstCall.reply.content[1].text]
           ELSE outcome.kind = "raise"

\* a call given tools and a tool manager whose first response is plain text
C3_Witness ==
    /\ pc = "returned"
    /\ ToolsPresent(args.tools)
    /\ ManagerPresent(args.tool_manager)
    /\ FirstCall.reply.stop_reason = "end_turn"
    /\ outcome.value = "text of response 1"
    /\ Len(create_calls) = 1

(***************************************************************************)
(* More notions: the rounds of a call.                                     *)
(***************************************************************************)
\* the positions in execute_calls of the invocations of round r
ExecsOfRound(r) == {e \in 1 .. Len(execute_calls) : execute_calls[e].round = r}

\* the position of invocation e among the invocations of its round
RankInRound(e) ==
    Cardinality({d \in ExecsOfRound(execute_calls[e].round) : d <= e})

\* the response processed in round r: the reply to request r
ResponseOfRound(r) == create_calls[r].reply

\* the tool result collected for invocation e: in the transcript once the
\* round's user message is appended, in tool_results before
ResultOf(e) ==
    LET r == execute_calls[e].round
    IN  IF Len(messages) >= 2 * r + 1
        THEN messages[2 * r + 1].content[RankInRound(e)]
        ELSE tool_results[RankInRound(e)]

\* the outcomes a call has when no exception of the Tool Executor escapes
NonToolFailures ==
    {ClientFailure, [kind |-> "raise", exc |-> "IndexError"],
     [kind |-> "raise", exc |-> "AttributeError"]}

Min(a, b) == IF a <= b THEN a ELSE b

(***************************************************************************)
(* C4, as stated.  A failure of the Tool Executor never leaves             *)
(* generate_response.                                                      *)
(* When execute_tool raises for a tool_use block, a tool result with the   *)
(* block's id and an error string as content is collected all the same,    *)
(* the other tool_use blocks of the response are executed as well, and the *)
(* next Model Client request is the one a successful execution leads to    *)
(* (it is made in the same round, and it is the final request exactly when *)
(* the round is the last permitted one); the call ends returning the text  *)
(* of its last response.                                                   *)
(***************************************************************************)
C4_ToolFailureRecovered ==
    Called =>
        /\ pc = "raised" => outcome \in NonToolFailures
        /\ \A e \in 1 .. Len(execute_calls) :
              LET call == execute_calls[e]
                  block == ResponseOfRound(call.round).content[call.block]
              IN  call.reply.kind = "raise" =>
                     /\ ResultOf(e).type = "tool_result"
                     /\ ResultOf(e).tool_use_id = block.id
                     /\ ResultOf(e).content =
                           "Error executing tool: " \o call.reply.msg
        /\ \A k \in 2 .. Len(create_calls) :
              /\ Cardinality(ExecsOfRound(k - 1)) =
                    Cardinality(ToolUseAt(ResponseOfRound(k - 1).content))
              /\ create_calls[k].round = k - 1
              /\ (\E e \in ExecsOfRound(k - 1) :
                      execute_calls[e].reply.kind = "raise") =>
                    /\ create_calls[k].site =
                          IF k - 1 >= args.max_tool_rounds THEN "final" ELSE "next"
                    /\ Tooled(create_calls[k].params) <=>
                          (k - 1 < args.max_tool_rounds /\ ToolsPresent(args.tools))
        /\ (/\ Ended
            /\ \E e \in 1 .. Len(execute_calls) :
                  execute_calls[e].reply.kind = "raise"
            /\ TextFirst(LastCall.reply)) =>
              outcome = [kind |-> "return", value |-> LastCall.reply.content[1].text]

(***************************************************************************)
(* C4, amended.  A failure of the Tool Executor that is an Exception (an   *)
(* instance of Exception or of a subclass) never leaves generate_response: *)
(* a tool result with the block's id and the error string as content is    *)
(* collected all the same, the other tool_use blocks of the response are   *)
(* executed as well, and the next Model Client request is the one a        *)
(* successful execution leads to (made in the same round, and the final    *)
(* request exactly when the round is the last permitted one); the call     *)
(* ends returning the text of its last response.  An exception that is not *)
(* an Exception (KeyboardInterrupt) leaves generate_response at once: no   *)
(* tool result is collected for it, and no invocation and no request       *)
(* follows.                                                                *)
(***************************************************************************)
C4_ExceptionRecovered ==
    Called =>
        /\ pc = "raised" =>
              IF Escaped
              THEN /\ Escapes(Len(execute_calls))
                   /\ outcome = [kind |-> "raise",
                                 exc |-> execute_calls[Len(execute_calls)].reply.exc]
              ELSE outcome \in NonToolFailures
        /\ \A e \in 1 .. Len(execute_calls) :
              LET call == execute_calls[e]
                  block == ResponseOfRound(call.round).content[call.block]
              IN  /\ (call.reply.kind = "raise" /\ ~Escapes(e)) =>
                        /\ ResultOf(e).type = "tool_result"
                        /\ ResultOf(e).tool_use_id = block.id
                        /\ ResultOf(e).content =
                              "Error executing tool: " \o call.reply.msg
                  /\ Escapes(e) =>
                        /\ e = Len(execute_calls)
                        /\ pc = "raised"
                        /\ Len(create_calls) = call.creates
                        /\ Len(messages) = 2 * call.round
                        /\ Len(tool_results) = RankInRound(e) - 1
        /\ \A k \in 2 .. Len(create_calls) :
              /\ Cardinality(ExecsOfRound(k - 1)) =
                    Cardinality(ToolUseAt(ResponseOfRound(k - 1).content))
              /\ create_calls[k].round = k - 1
              /\ (\E e \in ExecsOfRound(k - 1) :
                      execute_calls[e].reply.kind = "raise") =>
                    /\ create_calls[k].site =
                          IF k - 1 >= args.max_tool_rounds THEN "final" ELSE "next"
                    /\ Tooled(create_calls[k].params) <=>
                          (k - 1 < args.max_tool_rounds /\ ToolsPresent(args.tools))
        /\ (/\ Ended
            /\ \E e \in 1 .. Len(execute_calls) :
                  execute_calls[e].reply.kind = "raise"
            /\ ~Escaped
            /\ TextFirst(LastCall.reply)) =>
              outcome = [kind |-> "return", value |-> LastCall.reply.content[1].text]

\* the first of two tool uses of round 1 failed, the second was executed, the
\* call went on to a tooled follow-up request and a second round, and returned
C4_Witness ==
    /\ pc = "returned"
    /\ Len(execute_calls) >= 3
    /\ execute_calls[1].reply.kind = "raise"
    /\ execute_calls[2].round = 1
    /\ create_calls[2].site = "next"
    /\ Tooled(create_calls[2].params)
    /\ messages[3].content[1].content = "Error executing tool: Test tool execution error"

(***************************************************************************)
(* C5.  A failure of the Model Client, at the initial, a follow-up or the  *)
(* final request, ends the call as a failure to the caller: the failing    *)
(* request is the last Model Client call, no Tool Executor call follows it *)
(* and no answer text is returned.                                         *)
(***************************************************************************)
C5_ClientFailurePropagates ==
    \A i \in 1 .. Len(create_calls) :
        create_calls[i].reply.kind = "error" =>
            /\ i = Len(create_calls)
            /\ pc = "raised"
            /\ outcome.kind = "raise"
            /\ \A e \in 1 .. Len(execute_calls) : execute_calls[e].creates < i

\* a follow-up request failed after a round of tool calls
C5_Witness ==
    /\ pc = "raised"
    /\ Len(create_calls) = 2
    /\ LastCall.site = "next"
    /\ LastCall.reply.kind = "error"
    /\ Len(execute_calls) = 2

(***************************************************************************)
(* C6.  Round exhaustion: with R >= 1 and a tool manager, when the first   *)
(* response and every follow-up response signal tool_use and hold at least *)
(* one tool_use block (and no request fails), the call makes exactly R + 1 *)
(* Model Client calls, executes R rounds, with one invocation per tool_use *)
(* block of each of the R responses, sends request R + 1 without tools and *)
(* returns the text of its response.                                       *)
(***************************************************************************)
C6_RoundExhaustion ==
    (/\ Ended
     /\ PositiveRounds
     /\ ManagerPresent(args.tool_manager)
     /\ \A i \in 1 .. Len(create_calls) : create_calls[i].reply.kind = "response"
     /\ ~Escaped
     /\ \A i \in 1 .. Min(Len(create_calls), args.max_tool_rounds) :
           /\ SignalsToolUse(create_calls[i].reply)
           /\ ToolUseAt(create_calls[i].reply.content) # {}) =>
        /\ Len(create_calls) = args.max_tool_rounds + 1
        /\ \A r \in 1 .. args.max_tool_rounds :
              Cardinality(ExecsOfRound(r)) =
                 Cardinality(ToolUseAt(ResponseOfRound(r).content))
        /\ \A e \in 1 .. Len(execute_calls) :
              execute_calls[e].round \in 1 .. args.max_tool_rounds
        /\ LastCall.site = "final"
        /\ ~Tooled(LastCall.params)
        /\ IF TextFirst(LastCall.reply)
           THEN outcome = [kind |-> "return", value |-> LastCall.reply.content[1].text]
           ELSE outcome.kind = "raise"

\* max_tool_rounds = 2, one tool_use block in each of the two responses:
\* 3 Model Client calls, 2 invocations, the text of the third response
C6_Witness ==
    /\ pc = "returned"
    /\ args.max_tool_rounds = 2
    /\ ToolsPresent(args.tools)
    /\ Len(create_calls) = 3
    /\ SignalsToolUse(create_calls[1].reply)
    /\ SignalsToolUse(create_calls[2].reply)
    /\ Len(execute_calls) = 2
    /\ outcome.value = "text of response 3"

(***************************************************************************)
(* More notions: the transcripts sent to the Model Client.                 *)
(***************************************************************************)
\* the transcript of request i
Sent(i) == create_calls[i].params.messages

\* the positions in execute_calls of the invocations made for block u of the
\* response of round r
ExecsOfBlock(r, u) ==
    {e \in ExecsOfRound(r) : execute_calls[e].block = u}

\* the positions in a user message's content of the results for the id
ResultsFor(content, id) ==
    {k \in 1 .. Len(content) : content[k].tool_use_id = id}

(***************************************************************************)
(* C7.  In every transcript sent to the Model Client, each tool_use block  *)
(* of each assistant message has exactly one tool result with its id, in   *)
(* the user message right after that assistant message; the executor was   *)
(* invoked exactly once for the block, with the block's name and           *)
(* arguments, and the result holds what that invocation gave; and every    *)
(* tool result carries the id of a tool_use block of the assistant message *)
(* before it.                                                              *)
(***************************************************************************)
C7_EveryToolUseAnswered ==
    \A i \in 1 .. Len(create_calls) :
        LET T == Sent(i)
        IN  \A j \in 1 .. Len(T) :
               /\ T[j].role = "assistant" =>
                     LET blocks == T[j].content
                     IN  IF ToolUseAt(blocks) = {}
                         THEN j = Len(T)
                         ELSE /\ j + 1 <= Len(T)
                              /\ T[j + 1].role = "user"
                              /\ \A u \in ToolUseAt(blocks) :
                                    /\ Cardinality(ResultsFor(T[j + 1].content,
                                                              blocks[u].id)) = 1
                                    /\ Cardinality(ExecsOfBlock(j \div 2, u)) = 1
                                    /\ \A e \in ExecsOfBlock(j \div 2, u) :
                                          /\ execute_calls[e].name = blocks[u].name
                                          /\ execute_calls[e].input = blocks[u].input
                                          /\ execute_calls[e].creates < i
                                          /\ \A k \in ResultsFor(T[j + 1].content,
                                                                 blocks[u].id) :
                                                T[j + 1].content[k].content =
                                                   IF execute_calls[e].reply.kind = "return"
                                                   THEN execute_calls[e].reply.value
                                                   ELSE "Error executing tool: "
                                                        \o execute_calls[e].reply.msg
               /\ (j > 1 /\ T[j].role = "user") =>
                     /\ T[j - 1].role = "assistant"
                     /\ Len(T[j].content) =
                           Cardinality(ToolUseAt(T[j - 1].content))
                     /\ \A k \in 1 .. Len(T[j].content) :
                           /\ T[j].content[k].type = "tool_result"
                           /\ \E u \in ToolUseAt(T[j - 1].content) :
                                 T[j - 1].content[u].id = T[j].content[k].tool_use_id

\* a transcript of two rounds was sent: the first response held two tool_use
\* blocks, answered by two results, one of them an error
C7_Witness ==
    /\ Len(create_calls) = 3
    /\ Len(Sent(3)) = 5
    /\ Cardinality(ToolUseAt(Sent(3)[2].content)) = 2
    /\ Len(Sent(3)[3].content) = 2
    /\ Sent(3)[3].content[1].tool_use_id = "toolu_1"
    /\ Sent(3)[3].content[2].tool_use_id = "toolu_2"
    /\ execute_calls[2].reply.kind = "raise"

(***************************************************************************)
(* C8.  In every transcript sent to the Model Client, and in the           *)
(* transcript at every point of the call, the roles alternate, starting    *)
(* with user: no two consecutive messages have the same role, also after a *)
(* tool_use response without a tool_use block.                             *)
(***************************************************************************)
Alternates(T) ==
    \A j \in 1 .. Len(T) :
        T[j].role = IF j % 2 = 1 THEN "user" ELSE "assistant"

C8_RolesAlternate ==
    /\ \A i \in 1 .. Len(create_calls) : Len(Sent(i)) >= 1 /\ Alternates(Sent(i))
    /\ Alternates(messages)

\* the second response signalled tool_use without a tool_use block: the
\* final request's transcript is user, assistant, user, assistant
C8_Witness ==
    /\ Len(create_calls) = 3
    /\ Len(Sent(3)) = 4
    /\ SignalsToolUse(create_calls[2].reply)
    /\ ToolUseAt(create_calls[2].reply.content) = {}
    /\ LastCall.site = "final"

(***************************************************************************)
(* C9.  Termination.  With max_tool_rounds >= 1 and collaborators that     *)
(* return from every invocation, every call of generate_response ends,     *)
(* whatever the model answers, also a model that signals tool_use in every *)
(* response: each step of the loop brings the call closer to its end, the  *)
(* loop never runs a round beyond max_tool_rounds, and a call that reaches *)
(* round max_tool_rounds ends with the final request without tools.        *)
(***************************************************************************)
InLoop == pc \in {"while", "for"}

\* how far the call is from its end: the rounds left, then the place in the
\* round, then the content blocks left
Rank ==
    IF InLoop
    THEN <<args.max_tool_rounds - current_round,
           IF pc = "while" THEN 1 ELSE 0,
           IF pc = "for"
           THEN Len(initial_response.content) + 1 - block_index
           ELSE 0>>
    ELSE <<0 - 1, 0, 0>>

LexLess(a, b) ==
    \/ a[1] < b[1]
    \/ a[1] = b[1] /\ a[2] < b[2]
    \/ a[1] = b[1] /\ a[2] = b[2] /\ a[3] < b[3]

C9_Terminates ==
    /\ [][(PositiveRounds /\ InLoop) =>
             /\ LexLess(Rank', Rank)
             /\ InLoop' => (current_round' <= args.max_tool_rounds
                            /\ Rank'[3] >= 0)]_vars
    /\ [](PositiveRounds /\ InLoop => <>Ended)
    /\ []((PositiveRounds /\ pc = "for" /\ current_round = args.max_tool_rounds)
            => <>(/\ Ended
                  /\ \/ Escaped
                     \/ LastCall.site = "final" /\ ~Tooled(LastCall.params)))

\* a call whose every response, the last included, signalled tool_use and
\* held tool uses has ended
C9_Witness ==
    /\ Ended
    /\ args.max_tool_rounds = 2
    /\ ToolsPresent(args.tools)
    /\ Len(create_calls) = 3
    /\ \A i \in 1 .. 3 :
          /\ SignalsToolUse(create_calls[i].reply)
          /\ ToolUseAt(create_calls[i].reply.content) # {}

(***************************************************************************)
(* C10.  Determinism and statelessness across calls.  Against a Model      *)
(* Client and a Tool Executor that are functions of what they are given, a *)
(* call with the arguments of the call before it makes the same requests   *)
(* (system, transcript, tools), the same executor invocations and returns  *)
(* the same; the AIGenerator's base parameters are as constructed.         *)
(***************************************************************************)
IsPrefix(a, b) == Len(a) <= Len(b) /\ \A i \in 1 .. Len(a) : a[i] = b[i]

C10_Deterministic ==
    /\ base_params = BaseParams
    /\ prev # NoPrev =>
          /\ args = prev.args
          /\ IsPrefix(create_calls, prev.create_calls)
          /\ IsPrefix(execute_calls, prev.execute_calls)
          /\ Ended =>
                /\ create_calls = prev.create_calls
                /\ execute_calls = prev.execute_calls
                /\ outcome = prev.outcome

\* a second call, with tools and two rounds of tool calls, has returned
C10_Witness ==
    /\ mode = "det"
    /\ prev # NoPrev
    /\ pc = "returned"
    /\ ToolsPresent(args.tools)
    /\ Len(create_calls) = 3
    /\ Len(execute_calls) >= 3
    /\ \E e \in 1 .. Len(execute_calls) : execute_calls[e].reply.kind = "raise"

(***************************************************************************)
(* More notions: the first response and the assistant message made of a    *)
(* response.                                                               *)
(***************************************************************************)
AssistantMessage(reply) == [role |-> "assistant", content |-> reply.content]

\* round 1 is being executed or was executed on the first response: the call
\* did not end on the first response, the response is in the transcript once
\* the round has begun, and its tool_use blocks were executed, after the
\* first request, before the second request was made
InRoundOne ==
    /\ Len(create_calls) = 1 =>
          /\ current_round = 1
          /\ IF Escaped
             THEN pc = "raised" /\ outcome.exc \notin {"IndexError", "AttributeError"}
             ELSE InLoop /\ outcome = NoOutcome
    /\ (pc = "for" \/ Escaped \/ Len(create_calls) >= 2) =>
          /\ Len(messages) >= 2
          /\ messages[2] = AssistantMessage(FirstCall.reply)
    /\ Len(create_calls) >= 2 =>
          /\ Sent(2)[2] = AssistantMessage(FirstCall.reply)
          /\ Cardinality(ExecsOfRound(1)) =
                Cardinality(ToolUseAt(FirstCall.reply.content))
          /\ \A e \in ExecsOfRound(1) : execute_calls[e].creates = 1

(***************************************************************************)
(* C11, as stated.  Whenever the stop reason of the first response is      *)
(* tool_use, the call enters round 1 (the response is appended to the      *)
(* transcript and its tool_use blocks are executed) and does not return    *)
(* the first response's content, whether or not tools or a tool manager    *)
(* were given.                                                             *)
(***************************************************************************)
C11_AlwaysEntersRoundOne ==
    (PositiveRounds /\ SignalsToolUse(FirstCall.reply)) => InRoundOne

(***************************************************************************)
(* C11, amended.  With max_tool_rounds >= 1: whenever the stop reason of   *)
(* the first response is tool_use and a tool manager was given, the call   *)
(* enters round 1 and does not return the first response's content,        *)
(* whether or not tools were given.  Without a tool manager the call ends  *)
(* on the first response: it makes no further request, invokes no tool and *)
(* returns content[0].text of the first response, or raises when           *)
(* content[0] is not a text block.                                         *)
(***************************************************************************)
C11_EntersRoundOneWithManager ==
    (PositiveRounds /\ SignalsToolUse(FirstCall.reply)) =>
        IF ManagerPresent(args.tool_manager)
        THEN InRoundOne
        ELSE /\ Ended
             /\ Len(create_calls) = 1
             /\ Len(execute_calls) = 0
             /\ IF TextFirst(FirstCall.reply)
                THEN outcome = [kind |-> "return",
                                value |-> FirstCall.reply.content[1].text]
                ELSE outcome.kind = "raise"

\* no tools were given, a tool manager was; the first response signalled
\* tool_use and its two tool uses were executed before the second request
C11_Witness ==
    /\ Called
    /\ ~ToolsPresent(args.tools)
    /\ ManagerPresent(args.tool_manager)
    /\ SignalsToolUse(FirstCall.reply)
    /\ Len(create_calls) >= 2
    /\ Cardinality(ExecsOfRound(1)) = 2

(***************************************************************************)
(* C12.  With max_tool_rounds >= 1, the round counter r of the loop        *)
(* satisfies 1 <= r <= max_tool_rounds in every state of the loop; it      *)
(* changes only by one, after a round that invoked a tool, when            *)
(* r < max_tool_rounds and the response to the follow-up request (the      *)
(* request that carries the tools given) signals tool_use.                 *)
(***************************************************************************)
C12_RoundCounter ==
    /\ []((PositiveRounds /\ InLoop) =>
             (1 <= current_round /\ current_round <= args.max_tool_rounds))
    /\ [][(PositiveRounds /\ InLoop /\ current_round' # current_round) =>
             /\ current_round' = current_round + 1
             /\ current_round < args.max_tool_rounds
             /\ has_tool_calls
             /\ pc = "for" /\ pc' = "while"
             /\ Len(create_calls') = Len(create_calls) + 1
             /\ create_calls'[Len(create_calls')].site = "next"
             /\ SignalsToolUse(create_calls'[Len(create_calls')].reply)
             /\ Tooled(create_calls'[Len(create_calls')].params)
                   <=> ToolsPresent(args.tools)]_vars

\* the counter was incremented to max_tool_rounds = 2
C12_Witness ==
    /\ pc = "while"
    /\ args.max_tool_rounds = 2
    /\ current_round = 2
    /\ ToolsPresent(args.tools)
    /\ Tooled(LastCall.params)

(***************************************************************************)
(* More notions: the call ended on the text of a reply.                    *)
(***************************************************************************)
\* the call ended on content[0].text of the reply: it returned the text of
\* the first block, or raised where the first block has no text
EndedOnTextOf(reply) ==
    /\ Ended
    /\ reply.kind = "response"
    /\ IF TextFirst(reply)
       THEN outcome = [kind |-> "return", value |-> reply.content[1].text]
       ELSE outcome.kind = "raise" /\ outcome # ClientFailure

\* request k, k >= 2, is the request made at the end of round k - 1, after
\* the round's tool results were appended to the transcript
MadeAfterRound(k) ==
    LET r == k - 1
        content == ResponseOfRound(r).content
    IN  /\ create_calls[k].round = r
        /\ Len(Sent(k)) = IF ToolUseAt(content) = {} THEN 2 * r ELSE 2 * r + 1
        /\ Sent(k)[2 * r] = AssistantMessage(ResponseOfRound(r))
        /\ ToolUseAt(content) # {} =>
              /\ Sent(k)[2 * r + 1].role = "user"
              /\ Len(Sent(k)[2 * r + 1].content) = Cardinality(ToolUseAt(content))

\* request k is the final request exactly when its round is the last one
\* permitted or invoked no tool
FinalExactlyWhenDue(k) ==
    create_calls[k].site = "final" <=>
        \/ k - 1 >= args.max_tool_rounds
        \/ ToolUseAt(ResponseOfRound(k - 1).content) = {}

\* the final request carries no tools, is the last request, and the call
\* ends on the text of its response, whatever the stop reason
FinalRequestAt(k) ==
    create_calls[k].site = "final" =>
        /\ ~Tooled(create_calls[k].params)
        /\ k = Len(create_calls)
        /\ Ended
        /\ create_calls[k].reply.kind = "response" =>
              EndedOnTextOf(create_calls[k].reply)

(***************************************************************************)
(* C13, as stated.  In round r, after the tool results are appended, the   *)
(* final request without tools is made (and its text returned, whatever    *)
(* its stop reason) if and only if r >= max_tool_rounds or the response    *)
(* held no tool_use block; otherwise the next request is made with the     *)
(* original tools and the automatic tool choice attached.                  *)
(***************************************************************************)
C13_NextRequestAlwaysTooled ==
    \A k \in 2 .. Len(create_calls) :
        /\ MadeAfterRound(k)
        /\ FinalExactlyWhenDue(k)
        /\ FinalRequestAt(k)
        /\ create_calls[k].site # "final" =>
              /\ "tools" \in DOMAIN create_calls[k].params
              /\ "tool_choice" \in DOMAIN create_calls[k].params

(***************************************************************************)
(* C13, amended.  In round r, after the tool results are appended, the     *)
(* final request without tools is made (and its text returned, whatever    *)
(* its stop reason) if and only if r >= max_tool_rounds or the response    *)
(* held no tool_use block; otherwise the next request is made, with the    *)
(* original tools and the automatic tool choice attached when a non-empty  *)
(* list of tools was given, and without tools and tool choice when none    *)
(* was given.                                                              *)
(***************************************************************************)
C13_FinalOrNextRequest ==
    \A k \in 2 .. Len(create_calls) :
        /\ MadeAfterRound(k)
        /\ FinalExactlyWhenDue(k)
        /\ FinalRequestAt(k)
        /\ create_calls[k].site # "final" =>
              /\ create_calls[k].site = "next"
              /\ IF ToolsPresent(args.tools)
                 THEN /\ "tools" \in DOMAIN create_calls[k].params
                      /\ "tool_choice" \in DOMAIN create_calls[k].params
                      /\ create_calls[k].params.tools = args.tools[1]
                      /\ create_calls[k].params.tool_choice = [type |-> "auto"]
                 ELSE ~Tooled(create_calls[k].params)

\* tools were given; round 1 of 2 invoked a tool and was followed by a
\* request with the tools, round 2 by the final request, whose response
\* signalled tool_use and whose text was returned
C13_Witness ==
    /\ pc = "returned"
    /\ ToolsPresent(args.tools)
    /\ Len(create_calls) = 3
    /\ create_calls[2].site = "next"
    /\ Tooled(create_calls[2].params)
    /\ create_calls[3].site = "final"
    /\ SignalsToolUse(create_calls[3].reply)
    /\ outcome.value = create_calls[3].reply.content[1].text

(***************************************************************************)
(* C14.  When the follow-up request of a round r < max_tool_rounds gets a  *)
(* response whose stop reason is not tool_use, the call ends on that       *)
(* response's text at once: no Model Client call and no tool invocation    *)
(* follows.  With max_tool_rounds = 2 (the default) a call with a single   *)
(* tool round makes exactly 2 Model Client calls and the tool invocations  *)
(* of that one round.                                                      *)
(***************************************************************************)
C14_FollowUpReturned ==
    \A k \in 2 .. Len(create_calls) :
        (/\ create_calls[k].site = "next"
         /\ create_calls[k].reply.kind = "response"
         /\ ~SignalsToolUse(create_calls[k].reply)) =>
            /\ create_calls[k].round < args.max_tool_rounds
            /\ k = Len(create_calls)
            /\ EndedOnTextOf(create_calls[k].reply)
            /\ \A e \in 1 .. Len(execute_calls) : execute_calls[e].creates < k
            /\ (args.max_tool_rounds = DefaultMaxToolRounds /\ k = 2) =>
                  /\ Len(create_calls) = 2
                  /\ Len(execute_calls) =
                        Cardinality(ToolUseAt(FirstCall.reply.content))
                  /\ \A e \in 1 .. Len(execute_calls) :
                        execute_calls[e].round = 1

\* max_tool_rounds = 2: one round with two tool invocations, then a request
\* with the tools whose response ended the turn and whose text was returned
C14_Witness ==
    /\ pc = "returned"
    /\ args.max_tool_rounds = DefaultMaxToolRounds
    /\ Len(create_calls) = 2
    /\ create_calls[2].site = "next"
    /\ Tooled(create_calls[2].params)
    /\ create_calls[2].reply.stop_reason = "end_turn"
    /\ Len(execute_calls) = 2
    /\ outcome.value = create_calls[2].reply.content[1].text

\* round r is executed (or was): the response to request r signals tool_use
\* and is processed by the loop
RoundEntered(r) ==
    /\ r <= Len(create_calls)
    /\ r <= args.max_tool_rounds
    /\ ManagerPresent(args.tool_manager)
    /\ SignalsToolUse(ResponseOfRound(r))
    /\ create_calls[r].site \in {"initial", "next"}

(***************************************************************************)
(* C15.  When the response processed in a round signals tool_use but holds *)
(* no tool_use block, in any round: no tool is invoked in the round, no    *)
(* user message of tool results is appended, exactly one more request is   *)
(* made, without tools, and the call ends on the text of its response; the *)
(* call does not fail (a failure of the Model Client aside).               *)
(***************************************************************************)
C15_MalformedResponse ==
    \A r \in 1 .. Len(create_calls) :
        (RoundEntered(r) /\ ToolUseAt(ResponseOfRound(r).content) = {}) =>
            /\ ExecsOfRound(r) = {}
            /\ Len(create_calls) <= r + 1
            /\ Ended => Len(create_calls) = r + 1
            /\ (InLoop /\ Len(create_calls) = r) => current_round = r
            /\ (pc = "for" /\ Len(create_calls) = r) =>
                  /\ tool_results = <<>>
                  /\ ~has_tool_calls
                  /\ Len(messages) = 2 * r
            /\ Len(create_calls) = r + 1 =>
                  /\ create_calls[r + 1].site = "final"
                  /\ ~Tooled(create_calls[r + 1].params)
                  /\ Sent(r + 1) =
                        Append(Sent(r), AssistantMessage(ResponseOfRound(r)))
                  /\ Ended
                  /\ create_calls[r + 1].reply.kind = "response" =>
                        EndedOnTextOf(create_calls[r + 1].reply)
                  /\ create_calls[r + 1].reply.kind = "error" =>
                        outcome = ClientFailure

\* the response processed in round 2 signalled tool_use and held one text
\* block only; the call returned the text of the one request made after it
C15_Witness ==
    /\ pc = "returned"
    /\ Len(create_calls) = 3
    /\ SignalsToolUse(create_calls[2].reply)
    /\ ToolUseAt(create_calls[2].reply.content) = {}
    /\ Len(create_calls[2].reply.content) = 1
    /\ ExecsOfRound(2) = {}
    /\ Len(Sent(3)) = 4
    /\ outcome.value = create_calls[3].reply.content[1].text

\* the position of block u among the tool_use blocks of a content
RankOfBlock(content, u) == Cardinality({i \in ToolUseAt(content) : i <= u})

(***************************************************************************)
(* C16.  The tool_use blocks of a response are executed one at a time in   *)
(* the order of the blocks, the tool results of the round stand in the     *)
(* same order (the k-th result answers the k-th tool_use block), and no    *)
(* Model Client call is made between the invocations of a round: the       *)
(* invocations of round r are all made after request r and before          *)
(* request r + 1.                                                          *)
(***************************************************************************)
C16_BlockOrder ==
    /\ \A e, f \in 1 .. Len(execute_calls) :
          e < f =>
              \/ execute_calls[e].round < execute_calls[f].round
              \/ /\ execute_calls[e].round = execute_calls[f].round
                 /\ execute_calls[e].block < execute_calls[f].block
    /\ \A e \in 1 .. Len(execute_calls) :
          LET r == execute_calls[e].round
              content == ResponseOfRound(r).content
              u == execute_calls[e].block
          IN  /\ execute_calls[e].creates = r
              /\ u \in ToolUseAt(content)
              /\ execute_calls[e].name = content[u].name
              /\ execute_calls[e].input = content[u].input
              /\ RankInRound(e) = RankOfBlock(content, u)
              /\ ~Escapes(e) => ResultOf(e).tool_use_id = content[u].id
    /\ \A k \in 2 .. Len(create_calls) :
          LET content == ResponseOfRound(k - 1).content
          IN  \A u \in ToolUseAt(content) :
                  Sent(k)[2 * k - 1].content[RankOfBlock(content, u)].tool_use_id
                      = content[u].id

\* a response with a text block and two tool_use blocks: both were executed,
\* the first failed, and the request that followed carries the results in
\* the order of the blocks
C16_Witness ==
    /\ Len(create_calls) >= 2
    /\ Len(FirstCall.reply.content) = 3
    /\ Len(execute_calls) >= 2
    /\ execute_calls[1].block = 2
    /\ execute_calls[1].reply.kind = "raise"
    /\ execute_calls[2].block = 3
    /\ Sent(2)[3].content[1].tool_use_id = "toolu_1"
    /\ Sent(2)[3].content[2].tool_use_id = "toolu_2"

(***************************************************************************)
(* C17.  With max_tool_rounds >= 1 the fallback text "Maximum tool calling *)
(* rounds reached without final response." is never returned: the loop is  *)
(* always left through one of its return statements (or by an exception),  *)
(* never through its test.                                                 *)
(***************************************************************************)
C17_NoFallback ==
    PositiveRounds =>
        /\ outcome # [kind |-> "return", value |-> FALLBACK_TEXT]
        /\ pc = "while" => RoundPermitted(current_round, args.max_tool_rounds)
        /\ (Ended /\ outcome.kind = "return") =>
              /\ TextFirst(LastCall.reply)
              /\ outcome.value = LastCall.reply.content[1].text

\* every permitted round was used and every response signalled tool_use,
\* the final one too; the call returned the final response's text
C17_Witness ==
    /\ pc = "returned"
    /\ args.max_tool_rounds = MaxRounds
    /\ Len(create_calls) = MaxRounds + 1
    /\ \A k \in 1 .. Len(create_calls) : SignalsToolUse(create_calls[k].reply)
    /\ outcome.value # FALLBACK_TEXT

(***************************************************************************)
(* C18.  The transcript is append-only and the inputs are constant within  *)
(* a call: the first message of every request is the user message with the *)
(* query, the transcript of each request extends the transcript of the     *)
(* request before it, and every request carries the same system content:   *)
(* the system prompt, followed by the previous-conversation section        *)
(* exactly when a (non-empty) history was given.                           *)
(***************************************************************************)
C18_AppendOnly ==
    /\ \A i \in 1 .. Len(create_calls) :
          /\ Len(Sent(i)) >= 1
          /\ Sent(i)[1] = [role |-> "user", content |-> args.query]
          /\ create_calls[i].params.system =
                IF args.conversation_history \in {None, Some("")}
                THEN SYSTEM_PROMPT
                ELSE SYSTEM_PROMPT \o "\n\nPrevious conversation:\n"
                                   \o args.conversation_history[1]
          /\ create_calls[i].params.model = base_params.model
          /\ create_calls[i].params.temperature = Temperature
          /\ create_calls[i].params.max_tokens = MaxTokens
          /\ i > 1 =>
                /\ IsPrefix(Sent(i - 1), Sent(i))
                /\ Len(Sent(i - 1)) < Len(Sent(i))
    /\ InLoop =>
          /\ IsPrefix(LastCall.params.messages, messages)
          /\ messages[1] = [role |-> "user", content |-> args.query]
    /\ (InLoop /\ Len(messages) > 2 * current_round - 1) =>
          messages[2 * current_round] = AssistantMessage(initial_response)

\* a history was given; three requests were made, each with the history in
\* its system content, the third with a transcript of five messages
C18_Witness ==
    /\ Called
    /\ args.conversation_history \notin {None, Some("")}
    /\ Len(create_calls) = 3
    /\ Len(Sent(3)) = 5
    /\ create_calls[3].params.system # SYSTEM_PROMPT
    /\ create_calls[3].params.system = create_calls[1].params.system

(***************************************************************************)
(* C19.  With a tool manager and max_tool_rounds >= 1, no response that    *)
(* signals tool_use and answers the initial request or a follow-up request *)
(* is dropped: before the call ends the response is appended to the        *)
(* transcript as an assistant message and each of its tool_use blocks is   *)
(* executed.  A request with tools is made only when a round is left to    *)
(* process its response.                                                   *)
(***************************************************************************)
C19_NoToolUseDropped ==
    (PositiveRounds /\ ManagerPresent(args.tool_manager)) =>
        /\ \A k \in 1 .. Len(create_calls) :
              /\ Tooled(create_calls[k].params) => k <= args.max_tool_rounds
              /\ create_calls[k].site \in {"initial", "next"} =>
                    k <= args.max_tool_rounds
              /\ (/\ create_calls[k].site \in {"initial", "next"}
                  /\ SignalsToolUse(create_calls[k].reply)) =>
                    /\ (Ended /\ ~Escaped) => Len(create_calls) > k
                    /\ Len(create_calls) = k =>
                          /\ current_round = k
                          /\ IF Escaped
                             THEN /\ pc = "raised"
                                  /\ messages[2 * k] =
                                        AssistantMessage(create_calls[k].reply)
                             ELSE InLoop
                    /\ Len(create_calls) > k =>
                          /\ Sent(k + 1)[2 * k] =
                                AssistantMessage(create_calls[k].reply)
                          /\ \A u \in ToolUseAt(create_calls[k].reply.content) :
                                Cardinality(ExecsOfBlock(k, u)) = 1

\* the response to the follow-up request, made with tools, signalled
\* tool_use; it was processed in round 2 and its tool uses were executed
C19_Witness ==
    /\ Ended
    /\ Len(create_calls) = 3
    /\ create_calls[2].site = "next"
    /\ Tooled(create_calls[2].params)
    /\ SignalsToolUse(create_calls[2].reply)
    /\ Cardinality(ExecsOfRound(2)) = 2

(***************************************************************************)
(* C20.  With max_tool_rounds <= 0, a tool manager and a first response    *)
(* that signals tool_use, the call returns the fallback text after exactly *)
(* one Model Client call and no tool invocation, against the statement     *)
(* that a final request without tools always ends the negotiation; the     *)
(* fallback text is returned in no other situation.                        *)
(***************************************************************************)
C20_FallbackOnlyWithoutRounds ==
    /\ (/\ Called
        /\ args.max_tool_rounds <= 0
        /\ ManagerPresent(args.tool_manager)
        /\ SignalsToolUse(FirstCall.reply)) =>
            /\ Len(create_calls) = 1
            /\ Len(execute_calls) = 0
            /\ FirstCall.site = "initial"
            /\ pc \in {"while", "returned"}
            /\ pc = "while" => ~RoundPermitted(current_round, args.max_tool_rounds)
            /\ Ended => outcome = [kind |-> "return", value |-> FALLBACK_TEXT]
    /\ (Called /\ outcome = [kind |-> "return", value |-> FALLBACK_TEXT]) =>
            /\ args.max_tool_rounds <= 0
            /\ ManagerPresent(args.tool_manager)
            /\ SignalsToolUse(FirstCall.reply)
            /\ Len(create_calls) = 1
            /\ Len(execute_calls) = 0

\* max_tool_rounds = 0: the first response signalled tool_use with a
\* tool_use block, and the fallback text was returned
C20_Witness ==
    /\ pc = "returned"
    /\ args.max_tool_rounds = 0
    /\ ToolUseAt(FirstCall.reply.content) # {}
    /\ outcome = [kind |-> "return", value |-> FALLBACK_TEXT]
    /\ Len(create_calls) = 1
    /\ Len(execute_calls) = 0
=============================================================================
